---- MODULE Spec2Model ----
(***************************************************************************)
(* Model of release.py: the Version value type (parse, render, ordering,   *)
(* the three bumps), version discovery over the git tag list, and the      *)
(* release run (argument parsing, fetch, list, bump, build, manifest and   *)
(* notes rendering, release creation).                                     *)
(*                                                                         *)
(* Python strings are TLA+ strings; Len, \o and SubSeq act on them as on   *)
(* Python str.  A Python exception is carried in an "err" field that names *)
(* the exception class, "none" when the call returns normally.             *)
(***************************************************************************)
EXTENDS Integers, Sequences, FiniteSets, TLC

(***************************************************************************)
(* Bounds of the model.                                                    *)
(***************************************************************************)
MaxParts == 4
MaxComp == 3
MaxTags == 2

(***************************************************************************)
(* Python str primitives used by the script.                               *)
(***************************************************************************)
CharAt(s, i) == SubSeq(s, i, i)

StartsWith(s, p) == Len(p) <= Len(s) /\ SubSeq(s, 1, Len(p)) = p

RemovePrefix(s, p) == IF StartsWith(s, p) THEN SubSeq(s, Len(p) + 1, Len(s)) ELSE s

IndexOf(s, p) ==
  LET hits == {i \in 1..(Len(s) - Len(p) + 1) : SubSeq(s, i, i + Len(p) - 1) = p}
  IN IF hits = {} THEN 0 ELSE CHOOSE i \in hits : \A j \in hits : i <= j

Contains(s, p) == IndexOf(s, p) # 0

RECURSIVE Split(_, _)
Split(s, sep) ==
  LET i == IndexOf(s, sep)
  IN IF i = 0 THEN <<s>>
     ELSE <<SubSeq(s, 1, i - 1)>> \o Split(SubSeq(s, i + Len(sep), Len(s)), sep)

LowerLetters == "abcdefghijklmnopqrstuvwxyz"
UpperLetters == "ABCDEFGHIJKLMNOPQRSTUVWXYZ"

IsLower(c) == Contains(LowerLetters, c)
IsUpper(c) == Contains(UpperLetters, c)
IsCased(c) == IsLower(c) \/ IsUpper(c)
ToUpper(c) == IF IsLower(c) THEN CharAt(UpperLetters, IndexOf(LowerLetters, c)) ELSE c
ToLower(c) == IF IsUpper(c) THEN CharAt(LowerLetters, IndexOf(UpperLetters, c)) ELSE c

RECURSIVE TitleFrom(_, _, _)
TitleFrom(s, i, prevCased) ==
  IF i > Len(s) THEN ""
  ELSE LET c == CharAt(s, i)
       IN (IF prevCased THEN ToLower(c) ELSE ToUpper(c)) \o TitleFrom(s, i + 1, IsCased(c))

\* str.title(): a cased character is upper-cased after an uncased one, lower-cased otherwise
Title(s) == TitleFrom(s, 1, FALSE)

(***************************************************************************)
(* int(str) and str(int).                                                  *)
(***************************************************************************)
Digits == "0123456789"
IsDigit(c) == Len(c) = 1 /\ Contains(Digits, c)
DigitVal(c) == IndexOf(Digits, c) - 1
DigitChar(d) == CharAt(Digits, d + 1)

RECURSIVE LStrip(_)
LStrip(s) == IF Len(s) > 0 /\ CharAt(s, 1) = " " THEN LStrip(SubSeq(s, 2, Len(s))) ELSE s

RECURSIVE RStrip(_)
RStrip(s) == IF Len(s) > 0 /\ CharAt(s, Len(s)) = " " THEN RStrip(SubSeq(s, 1, Len(s) - 1)) ELSE s

\* digits, with single underscores allowed between two digits
IsIntBody(s) ==
  /\ Len(s) > 0
  /\ IsDigit(CharAt(s, 1))
  /\ IsDigit(CharAt(s, Len(s)))
  /\ \A i \in 1..Len(s) : IsDigit(CharAt(s, i)) \/ CharAt(s, i) = "_"
  /\ \A i \in 1..(Len(s) - 1) : ~(CharAt(s, i) = "_" /\ CharAt(s, i + 1) = "_")

RECURSIVE IntBodyVal(_, _, _)
IntBodyVal(s, i, acc) ==
  IF i > Len(s) THEN acc
  ELSE IF CharAt(s, i) = "_" THEN IntBodyVal(s, i + 1, acc)
  ELSE IntBodyVal(s, i + 1, 10 * acc + DigitVal(CharAt(s, i)))

\* int(s): surrounding whitespace is stripped, one sign is accepted
PyInt(s) ==
  LET t == RStrip(LStrip(s))
      signed == Len(t) > 0 /\ CharAt(t, 1) \in {"+", "-"}
      body == IF signed THEN SubSeq(t, 2, Len(t)) ELSE t
  IN IF ~IsIntBody(body) THEN [err |-> "ValueError", val |-> 0]
     ELSE [err |-> "none",
           val |-> IF signed /\ CharAt(t, 1) = "-" THEN 0 - IntBodyVal(body, 1, 0)
                   ELSE IntBodyVal(body, 1, 0)]

RECURSIVE DecStr(_)
DecStr(n) == IF n < 10 THEN DigitChar(n) ELSE DecStr(n \div 10) \o DigitChar(n % 10)

PyStr(n) == IF n < 0 THEN "-" \o DecStr(0 - n) ELSE DecStr(n)

(***************************************************************************)
(* class Version                                                           *)
(***************************************************************************)
Version(major, minor, patch) == [major |-> major, minor |-> minor, patch |-> patch]

ZERO_VERISON == Version(0, 0, 0)

VersionParse(str) ==
  LET s == RemovePrefix(str, "v")
      p == Split(s, ".")
  IN IF Len(p) # 3 THEN [err |-> "ValueError", v |-> ZERO_VERISON]
     ELSE LET major == PyInt(p[1])
              minor == PyInt(p[2])
              patch == PyInt(p[3])
          IN IF major.err # "none" \/ minor.err # "none" \/ patch.err # "none"
             THEN [err |-> "ValueError", v |-> ZERO_VERISON]
             ELSE [err |-> "none", v |-> Version(major.val, minor.val, patch.val)]

\* rendering without the leading "v"
VersionStr_bare(v) == PyStr(v.major) \o "." \o PyStr(v.minor) \o "." \o PyStr(v.patch)

VersionStr(v) == "v" \o PyStr(v.major) \o "." \o PyStr(v.minor) \o "." \o PyStr(v.patch)

next_major(v) == Version(v.major + 1, 0, 0)

\* a minor bump that keeps the patch number
next_minor_keep(v) == Version(v.major, v.minor + 1, v.patch)

next_minor(v) == Version(v.major, v.minor + 1, 0)

next_patch(v) == Version(v.major, v.minor, v.patch + 1)

\* dataclass(order=True): comparison of the tuples (major, minor, patch)
VersionLt(a, b) ==
  \/ a.major < b.major
  \/ a.major = b.major /\ a.minor < b.minor
  \/ a.major = b.major /\ a.minor = b.minor /\ a.patch < b.patch

VersionLe(a, b) == a = b \/ VersionLt(a, b)

(***************************************************************************)
(* State.  The release run: the command line, the projects found under     *)
(* ROOT_DIR, the position of the script, the values it computes, the       *)
(* external commands it has invoked and how the process ended.  The value  *)
(* checks: the string handed to Version.parse and the version handed to    *)
(* the bumps, with their results.                                          *)
(***************************************************************************)
VARIABLES
  args,        \* parsed command line: [project, version]
  projects,    \* children of ROOT_DIR that hold a transform.yaml
  pc,          \* position of the script
  tags,        \* lines printed by `git tag`
  versions,    \* list returned by list_versions
  latest,      \* the variable `latest` of the main block
  artifacts,   \* BuildArtifacts returned by build
  manifest,    \* what open + yaml.safe_load gave for transform.yaml
  notes,       \* the rendered release notes
  calls,       \* external commands invoked so far, in order, with exit code
  steps,       \* steps of the run executed so far, in order
  error,       \* class of the uncaught exception, "none" while there is none
  exitStatus,  \* process exit status, -1 while running
  text,        \* argument of Version.parse
  parsed,      \* result of Version.parse(text)
  rendered,    \* str(parsed version)
  reparsed,    \* Version.parse(rendered)
  ver,         \* a Version value
  op,          \* which bump was applied to ver
  bumped       \* the value the bump returned

runVars == <<args, projects, pc, tags, versions, latest, artifacts, manifest, notes,
             calls, steps, error, exitStatus>>
parseVars == <<text, parsed, rendered, reparsed>>
bumpVars == <<ver, op, bumped>>
vars == <<runVars, parseVars, bumpVars>>

ROOT_DIR == "."

\* pathlib's Path / str
PathJoin(a, b) == IF a = "." THEN b ELSE a \o "/" \o b

NoArtifacts == [project |-> "", wasm_file |-> "", transform_yaml |-> ""]
NoManifest == [file |-> "unread", description |-> "", hasDescription |-> FALSE,
               env |-> [kind |-> "absent", items |-> <<>>]]
NoParse == [err |-> "unset", v |-> ZERO_VERISON]

RunIdle ==
  /\ args = [project |-> "", version |-> ""]
  /\ projects = {}
  /\ pc = "idle"
  /\ tags = <<>>
  /\ versions = <<>>
  /\ latest = ZERO_VERISON
  /\ artifacts = NoArtifacts
  /\ manifest = NoManifest
  /\ notes = ""
  /\ calls = <<>>
  /\ steps = <<>>
  /\ error = "none"
  /\ exitStatus = -1

ParseIdle ==
  /\ text = ""
  /\ parsed = NoParse
  /\ rendered = ""
  /\ reparsed = NoParse

BumpIdle ==
  /\ ver = ZERO_VERISON
  /\ op = "none"
  /\ bumped = ZERO_VERISON

(***************************************************************************)
(* Inputs of the run.                                                      *)
(***************************************************************************)
ProjectPool == {"regex", "proj", "redact-go"}
ProjectDirs == {ProjectPool, {"regex"}}
VersionChoices == {"major", "minor", "patch"}
VersionArgs == VersionChoices \cup {"bogus"}

TagPool == {"regex-v1.3.0", "regex-1.10.0", "regex-v1.x.0", "regex--1.0.0",
            "proj-v1.2.0", "other-v9.9.9"}

SeqsUpTo(S, n) == UNION {[1..k -> S] : k \in 0..n}

TagLists == SeqsUpTo(TagPool, MaxTags)

EnvKeys == {"A", "B"}
EnvValues == {"<required>", "default"}
EnvItemLists ==
  {s \in SeqsUpTo(EnvKeys \X EnvValues, Cardinality(EnvKeys)) :
     \A i, j \in 1..Len(s) : i # j => s[i][1] # s[j][1]}
EnvTables == {[kind |-> "absent", items |-> <<>>], [kind |-> "null", items |-> <<>>]}
             \cup {[kind |-> "map", items |-> s] : s \in EnvItemLists}
Description == "Filter records by a regular expression."
ManifestPool ==
  {[file |-> f, description |-> "", hasDescription |-> FALSE,
    env |-> [kind |-> "absent", items |-> <<>>]] : f \in {"unreadable", "malformed"}}
  \cup {[file |-> "ok", description |-> Description, hasDescription |-> TRUE, env |-> e] :
          e \in EnvTables}
  \cup {[file |-> "ok", description |-> "", hasDescription |-> FALSE,
         env |-> [kind |-> "map", items |-> <<>>]]}

(***************************************************************************)
(* list_versions, max, build, make_release as operators on values.         *)
(***************************************************************************)
\* the list comprehension of list_versions: one ValueError fails the call
list_versions(project, lines) ==
  LET prefix == project \o "-"
      matching == SelectSeq(lines, LAMBDA tag : StartsWith(tag, prefix))
      results == [i \in 1..Len(matching) |-> VersionParse(RemovePrefix(matching[i], prefix))]
  IN IF \E i \in 1..Len(matching) : results[i].err # "none"
     THEN [err |-> "ValueError", versions |-> <<>>]
     ELSE [err |-> "none", versions |-> [i \in 1..Len(matching) |-> results[i].v]]

RECURSIVE MaxFrom(_, _, _)
MaxFrom(list, i, best) ==
  IF i > Len(list) THEN best
  ELSE MaxFrom(list, i + 1, IF VersionLt(best, list[i]) THEN list[i] ELSE best)

\* the first version of the list instead of the greatest
MaxVersion_first(list, d) == IF list = <<>> THEN d ELSE list[1]

\* max(list, default=d)
MaxVersion(list, d) == IF list = <<>> THEN d ELSE MaxFrom(list, 2, list[1])

Bump(kind, version) ==
  IF kind = "major" THEN next_major(version)
  ELSE IF kind = "minor" THEN next_minor(version)
  ELSE IF kind = "patch" THEN next_patch(version)
  ELSE version

\* the binary looked up in ROOT_DIR instead of the project's directory
BuildArtifacts_root(project) ==
  [project |-> project,
   wasm_file |-> PathJoin(ROOT_DIR, project \o ".wasm"),
   transform_yaml |-> PathJoin(PathJoin(ROOT_DIR, project), "transform.yaml")]

BuildArtifacts(project) ==
  [project |-> project,
   wasm_file |-> PathJoin(PathJoin(ROOT_DIR, project), project \o ".wasm"),
   transform_yaml |-> PathJoin(PathJoin(ROOT_DIR, project), "transform.yaml")]

\* every key of the env table, whatever its value
RequiredEnv_all(items) == [i \in 1..Len(items) |-> items[i][1]]

\* keys of the env table whose value is the sentinel, in table order
RequiredEnv(items) ==
  LET req == SelectSeq(items, LAMBDA kv : kv[2] = "<required>")
  IN [i \in 1..Len(req) |-> req[i][1]]

sep == " \\\n" \o "    "

RECURSIVE EnvVars(_, _)
EnvVars(required_env, i) ==
  IF i > Len(required_env) THEN ""
  ELSE sep \o "--env-var='" \o required_env[i] \o "=[VALUE]'" \o EnvVars(required_env, i + 1)

DeployTarget(project, version) == "@redpanda-data/regex@" \o VersionStr(version)

\* the code fence of the notes: three grave accents (the lexer wants the
\* closing quote inside the literal, SubSeq cuts it off again)
Fence == SubSeq("```'", 1, 3)

RenderNotes(description, project, version, env_vars) ==
  "\n" \o description \o "\n\n" \o Fence \o "\n# Deploy this transform using:\n"
  \o "rpk transform deploy " \o DeployTarget(project, version) \o " \\\n"
  \o "    --name [NAME] \\\n"
  \o "    --input-topic [TOPIC] \\\n"
  \o "    --output-topic [TOPIC]" \o env_vars \o "\n" \o Fence \o "\n    "

Call(argv, cwd, rc) == [argv |-> argv, cwd |-> cwd, rc |-> rc]

ReleaseArgv(version, arts, body) ==
  <<"gh", "release", "create", arts.project \o "-" \o VersionStr(version),
    arts.transform_yaml, arts.wasm_file, "--notes", body,
    "--title", Title(arts.project) \o " " \o VersionStr(version)>>

\* an uncaught exception (status 1) or an argparse error (status 2) ends the process
Abort(exc, status) ==
  /\ pc' = "failed"
  /\ error' = exc
  /\ exitStatus' = status

(***************************************************************************)
(* The release run.                                                        *)
(***************************************************************************)
Init ==
  /\ args \in [project : ProjectPool, version : VersionArgs]
  /\ projects \in ProjectDirs
  /\ pc = "start"
  /\ tags = <<>>
  /\ versions = <<>>
  /\ latest = ZERO_VERISON
  /\ artifacts = NoArtifacts
  /\ manifest = NoManifest
  /\ notes = ""
  /\ calls = <<>>
  /\ steps = <<>>
  /\ error = "none"
  /\ exitStatus = -1
  /\ ParseIdle
  /\ BumpIdle

\* --project without its choices
ParseArgs_anyProject ==
  /\ pc = "start"
  /\ IF args.version \in VersionChoices
     THEN pc' = "args" /\ UNCHANGED <<error, exitStatus>>
     ELSE Abort("ArgumentError", 2)
  /\ UNCHANGED <<args, projects, tags, versions, latest, artifacts, manifest, notes,
                 calls, steps, parseVars, bumpVars>>

\* argparse: both flags are restricted to their choices
ParseArgs ==
  /\ pc = "start"
  /\ IF args.project \in projects /\ args.version \in VersionChoices
     THEN pc' = "args" /\ UNCHANGED <<error, exitStatus>>
     ELSE Abort("ArgumentError", 2)
  /\ UNCHANGED <<args, projects, tags, versions, latest, artifacts, manifest, notes,
                 calls, steps, parseVars, bumpVars>>

\* list_versions, first command: git fetch --tags --all
FetchTags ==
  /\ pc = "args"
  /\ \E rc \in {0, 1} :
       /\ calls' = Append(calls, Call(<<"git", "fetch", "--tags", "--all">>, ROOT_DIR, rc))
       /\ IF rc = 0
          THEN pc' = "fetched" /\ UNCHANGED <<error, exitStatus>>
          ELSE Abort("CalledProcessError", 1)
  /\ steps' = Append(steps, "fetch tags")
  /\ UNCHANGED <<args, projects, tags, versions, latest, artifacts, manifest, notes,
                 parseVars, bumpVars>>

\* list_versions, second command and the parse of its output: git tag
ListTags ==
  /\ pc = "fetched"
  /\ \E rc \in {0, 1}, output \in TagLists :
       /\ calls' = Append(calls, Call(<<"git", "tag">>, ROOT_DIR, rc))
       /\ IF rc # 0
          THEN Abort("CalledProcessError", 1) /\ UNCHANGED <<tags, versions>>
          ELSE LET res == list_versions(args.project, output)
               IN /\ tags' = output
                  /\ versions' = res.versions
                  /\ IF res.err = "none"
                     THEN pc' = "listed" /\ UNCHANGED <<error, exitStatus>>
                     ELSE Abort(res.err, 1)
  /\ steps' = Append(steps, "list tags")
  /\ UNCHANGED <<args, projects, latest, artifacts, manifest, notes, parseVars, bumpVars>>

\* latest = max(..., default=ZERO_VERISON), then the bump chosen by --version
ComputeVersion ==
  /\ pc = "listed"
  /\ latest' = Bump(args.version, MaxVersion(versions, ZERO_VERISON))
  /\ pc' = "computed"
  /\ steps' = Append(steps, "compute version")
  /\ UNCHANGED <<args, projects, tags, versions, artifacts, manifest, notes, calls,
                 error, exitStatus, parseVars, bumpVars>>

\* the build's exit code ignored (subprocess.call for check_call)
Build_unchecked ==
  /\ pc = "computed"
  /\ \E rc \in {0, 1} :
       calls' = Append(calls, Call(<<"rpk", "transform", "build">>,
                                   PathJoin(ROOT_DIR, args.project), rc))
  /\ artifacts' = BuildArtifacts(args.project)
  /\ pc' = "built"
  /\ steps' = Append(steps, "build")
  /\ UNCHANGED <<args, projects, tags, versions, latest, manifest, notes,
                 error, exitStatus, parseVars, bumpVars>>

\* build: rpk transform build in the project's directory
Build ==
  /\ pc = "computed"
  /\ \E rc \in {0, 1} :
       /\ calls' = Append(calls, Call(<<"rpk", "transform", "build">>,
                                      PathJoin(ROOT_DIR, args.project), rc))
       /\ IF rc = 0
          THEN /\ artifacts' = BuildArtifacts(args.project)
               /\ pc' = "built"
               /\ UNCHANGED <<error, exitStatus>>
          ELSE Abort("CalledProcessError", 1) /\ UNCHANGED artifacts
  /\ steps' = Append(steps, "build")
  /\ UNCHANGED <<args, projects, tags, versions, latest, manifest, notes,
                 parseVars, bumpVars>>

\* make_release up to the notes: open and load the manifest, collect the
\* required variables, render the notes
ReadManifest ==
  /\ pc = "built"
  /\ \E m \in ManifestPool :
       /\ manifest' = m
       /\ IF m.file = "unreadable" THEN Abort("OSError", 1) /\ UNCHANGED notes
          ELSE IF m.file = "malformed" THEN Abort("YAMLError", 1) /\ UNCHANGED notes
          ELSE IF m.env.kind = "null" THEN Abort("AttributeError", 1) /\ UNCHANGED notes
          ELSE IF ~m.hasDescription THEN Abort("KeyError", 1) /\ UNCHANGED notes
          ELSE /\ notes' = RenderNotes(m.description, artifacts.project, latest,
                                       EnvVars(RequiredEnv(m.env.items), 1))
               /\ pc' = "rendered"
               /\ UNCHANGED <<error, exitStatus>>
  /\ steps' = Append(steps, "read manifest")
  /\ UNCHANGED <<args, projects, tags, versions, latest, artifacts, calls,
                 parseVars, bumpVars>>

\* make_release, the command: gh release create
Publish ==
  /\ pc = "rendered"
  /\ \E rc \in {0, 1} :
       /\ calls' = Append(calls, Call(ReleaseArgv(latest, artifacts, notes), ROOT_DIR, rc))
       /\ IF rc = 0
          THEN pc' = "done" /\ exitStatus' = 0 /\ UNCHANGED error
          ELSE Abort("CalledProcessError", 1)
  /\ steps' = Append(steps, "publish")
  /\ UNCHANGED <<args, projects, tags, versions, latest, artifacts, manifest, notes,
                 parseVars, bumpVars>>

Next ==
  \/ ParseArgs
  \/ FetchTags
  \/ ListTags
  \/ ComputeVersion
  \/ Build
  \/ ReadManifest
  \/ Publish

Spec == Init /\ [][Next]_vars

(***************************************************************************)
(* Version.parse and str(Version) on their own: parse a string, render the *)
(* version it gave, parse the rendering again.                             *)
(***************************************************************************)
PartPool == {"0", "12", "007", "-1", "x", ""}
PrefixPool == {"", "v", "vv"}

RECURSIVE Join(_, _)
Join(parts, i) == IF i >= Len(parts) THEN parts[i] ELSE parts[i] \o "." \o Join(parts, i + 1)

ParseInputs ==
  {pre \o Join(parts, 1) : pre \in PrefixPool,
                           parts \in UNION {[1..k -> PartPool] : k \in 1..MaxParts}}

InitParse ==
  /\ text \in ParseInputs
  /\ parsed = NoParse
  /\ rendered = ""
  /\ reparsed = NoParse
  /\ RunIdle
  /\ BumpIdle

DoParse ==
  /\ parsed.err = "unset"
  /\ parsed' = VersionParse(text)
  /\ UNCHANGED <<text, rendered, reparsed, runVars, bumpVars>>

DoRender ==
  /\ parsed.err = "none"
  /\ rendered = ""
  /\ rendered' = VersionStr(parsed.v)
  /\ UNCHANGED <<text, parsed, reparsed, runVars, bumpVars>>

DoReparse ==
  /\ rendered # ""
  /\ reparsed.err = "unset"
  /\ reparsed' = VersionParse(rendered)
  /\ UNCHANGED <<text, parsed, rendered, runVars, bumpVars>>

NextParse == DoParse \/ DoRender \/ DoReparse

SpecParse == InitParse /\ [][NextParse]_vars

(***************************************************************************)
(* The three bumps on their own.                                           *)
(***************************************************************************)
VersionPool == {Version(a, b, c) : a, b, c \in (-1)..MaxComp}

InitBump ==
  /\ ver \in VersionPool
  /\ op = "none"
  /\ bumped = ZERO_VERISON
  /\ RunIdle
  /\ ParseIdle

BumpMajor ==
  /\ op = "none"
  /\ op' = "major"
  /\ bumped' = next_major(ver)
  /\ UNCHANGED <<ver, runVars, parseVars>>

BumpMinor ==
  /\ op = "none"
  /\ op' = "minor"
  /\ bumped' = next_minor(ver)
  /\ UNCHANGED <<ver, runVars, parseVars>>

BumpPatch ==
  /\ op = "none"
  /\ op' = "patch"
  /\ bumped' = next_patch(ver)
  /\ UNCHANGED <<ver, runVars, parseVars>>

NextBump == BumpMajor \/ BumpMinor \/ BumpPatch

SpecBump == InitBump /\ [][NextBump]_vars

(***************************************************************************)
(* Vocabulary of the properties.                                           *)
(***************************************************************************)
IsDigitString(p) == Len(p) > 0 /\ \A i \in 1..Len(p) : IsDigit(CharAt(p, i))

\* optional "v", then exactly three dot-separated non-negative integers
WellFormed(s) ==
  LET p == Split(RemovePrefix(s, "v"), ".")
  IN Len(p) = 3 /\ \A i \in 1..3 : IsDigitString(p[i])

RECURSIVE StripZeros(_)
StripZeros(p) == IF Len(p) > 1 /\ CharAt(p, 1) = "0" THEN StripZeros(SubSeq(p, 2, Len(p))) ELSE p

\* canonical text of a well-formed version string
Canonical(s) ==
  LET p == Split(RemovePrefix(s, "v"), ".")
  IN "v" \o StripZeros(p[1]) \o "." \o StripZeros(p[2]) \o "." \o StripZeros(p[3])

RECURSIVE DigitStringVal(_)
DigitStringVal(p) ==
  IF p = "" THEN 0
  ELSE 10 * DigitStringVal(SubSeq(p, 1, Len(p) - 1)) + DigitVal(CharAt(p, Len(p)))

CountOcc(s, p) == Cardinality({i \in 1..(Len(s) - Len(p) + 1) : SubSeq(s, i, i + Len(p) - 1) = p})

Range(f) == {f[i] : i \in DOMAIN f}

IsPrefixOf(a, b) == Len(a) <= Len(b) /\ \A i \in 1..Len(a) : a[i] = b[i]

Invoked(cmd) == \E i \in 1..Len(calls) : calls[i].argv[1] = cmd

StepOrder == <<"fetch tags", "list tags", "compute version", "build", "read manifest", "publish">>
CommandOrder == <<<<"git", "fetch">>, <<"git", "tag">>, <<"rpk", "transform">>,
                  <<"gh", "release">>>>
ManifestErrors == {"OSError", "YAMLError", "AttributeError", "KeyError"}

\* git tag has returned normally: list_versions has seen the tag list
TagsListed == Len(calls) >= 2 /\ calls[2].rc = 0

MatchingSuffixes ==
  LET prefix == args.project \o "-"
      matching == SelectSeq(tags, LAMBDA tag : StartsWith(tag, prefix))
  IN [i \in 1..Len(matching) |-> SubSeq(matching[i], Len(prefix) + 1, Len(matching[i]))]

ValueOf(s) ==
  LET p == Split(RemovePrefix(s, "v"), ".")
  IN Version(DigitStringVal(p[1]), DigitStringVal(p[2]), DigitStringVal(p[3]))

NotesRendered == pc \in {"rendered", "done"} \/ (pc = "failed" /\ Invoked("gh"))

(***************************************************************************)
(* Properties.                                                             *)
(***************************************************************************)

\* C1: Version.parse raises ValueError for every string that, after one
\* optional leading "v" is removed and the rest is split on ".", is not
\* exactly three parts that are each a non-negative integer; it never
\* returns a Version for such a string.
C1_ParseRejectsMalformed ==
  (parsed.err # "unset" /\ ~WellFormed(text)) => parsed.err = "ValueError"

\* the greatest discovered version, its requested bump, the expected title
C2_Top == IF versions = <<>> THEN Version(0, 0, 0)
          ELSE CHOOSE x \in Range(versions) : \A y \in Range(versions) : VersionLe(y, x)
C2_Target ==
  CASE args.version = "major" -> Version(C2_Top.major + 1, 0, 0)
    [] args.version = "minor" -> Version(C2_Top.major, C2_Top.minor + 1, 0)
    [] args.version = "patch" -> Version(C2_Top.major, C2_Top.minor, C2_Top.patch + 1)
C2_TitleOf ==
  CASE args.project = "regex" -> "Regex"
    [] args.project = "proj" -> "Proj"
    [] args.project = "redact-go" -> "Redact-Go"

\* C2: a run that ends successfully has created exactly one release, tagged
\* <P>-<V> with V the requested bump of the greatest discovered version (of
\* 0.0.0 when there is none), titled with the title-cased project and V,
\* with P/transform.yaml and P/<P>.wasm attached, after one build in P.
C2_EndToEnd ==
  pc = "done" =>
    LET P == args.project
        V == VersionStr(C2_Target)
        releases == SelectSeq(calls, LAMBDA c : c.argv[1] = "gh")
        builds == SelectSeq(calls, LAMBDA c : c.argv[1] = "rpk")
    IN /\ Len(releases) = 1
       /\ releases[1].argv = <<"gh", "release", "create", P \o "-" \o V,
                               P \o "/transform.yaml", P \o "/" \o P \o ".wasm",
                               "--notes", notes, "--title", C2_TitleOf \o " " \o V>>
       /\ Len(builds) = 1
       /\ builds[1].argv = <<"rpk", "transform", "build">>
       /\ builds[1].cwd = P
       /\ exitStatus = 0

C2_Witness ==
  /\ pc = "done"
  /\ args = [project |-> "regex", version |-> "minor"]
  /\ tags = <<"regex-v1.3.0">>
  /\ calls[4].argv[4] = "regex-v1.4.0"
  /\ calls[4].argv[10] = "Regex v1.4.0"

\* C3: the deploy command of the rendered notes names the project being
\* released: the notes contain
\* "rpk transform deploy @redpanda-data/<project>@<version>".
C3_DeployNamesProject ==
  NotesRendered =>
    Contains(notes, "rpk transform deploy @redpanda-data/" \o artifacts.project
                    \o "@" \o VersionStr(latest))

\* C4 as stated: once a configuration error (project not among the
\* discovered ones, manifest unreadable or not valid structured data) is
\* reported, neither the build nor the release command has been invoked.
C4_ConfigErrorBeforeSideEffects ==
  error \in {"ArgumentError"} \cup ManifestErrors => ~Invoked("rpk") /\ ~Invoked("gh")

\* C4 amended: a project that is not among the discovered ones is rejected
\* before any external command; an unreadable or invalid manifest is
\* reported after the build has run and before the release command.
C4_ManifestErrorBeforePublish ==
  /\ args.project \notin projects => calls = <<>>
  /\ error \in ManifestErrors =>
       /\ ~Invoked("gh")
       /\ \E i \in 1..Len(calls) : calls[i].argv[1] = "rpk" /\ calls[i].rc = 0

C4_Witness == error = "YAMLError" /\ Len(calls) = 3 /\ calls[3].argv[1] = "rpk"

\* C5: version discovery is all-or-nothing: if every tag that starts with
\* "<P>-" has a well-formed suffix the result is exactly their versions, in
\* order, whatever other tags exist; if one has a malformed suffix the call
\* fails with a ValueError and returns nothing.
C5_AllOrNothing ==
  TagsListed =>
    IF \A i \in 1..Len(MatchingSuffixes) : WellFormed(MatchingSuffixes[i])
    THEN /\ error = "none"
         /\ versions = [i \in 1..Len(MatchingSuffixes) |-> ValueOf(MatchingSuffixes[i])]
    ELSE /\ error = "ValueError"
         /\ pc = "failed"
         /\ versions = <<>>

\* C6: the steps of a run are a prefix of fetch tags, list tags, compute
\* version, build, read manifest, publish; each external command is invoked
\* at most once, in that order; a command that exits non-zero is the last
\* thing the run does and the process exits non-zero.
C6_Sequential ==
  /\ IsPrefixOf(steps, StepOrder)
  /\ IsPrefixOf([i \in 1..Len(calls) |-> SubSeq(calls[i].argv, 1, 2)], CommandOrder)
  /\ \A i \in 1..Len(calls) :
       calls[i].rc # 0 =>
         /\ i = Len(calls)
         /\ pc = "failed"
         /\ exitStatus \notin {-1, 0}
         /\ steps[Len(steps)] = StepOrder[IF i <= 2 THEN i ELSE IF i = 3 THEN 4 ELSE 6]
  /\ pc = "failed" => exitStatus \notin {-1, 0}

C6_Witness ==
  /\ pc = "failed"
  /\ Len(calls) = 3
  /\ calls[3].argv[1] = "rpk"
  /\ calls[3].rc = 1
  /\ steps = SubSeq(StepOrder, 1, 4)

\* C7: the rendered notes hold exactly one --env-var='<NAME>=[VALUE]' flag
\* for each env key whose value is "<required>", none for any other key,
\* none at all without an env table; every flag sits on its own
\* continuation line (" \", newline, four spaces) after --output-topic.
C7_EnvFlags ==
  NotesRendered =>
    LET items == manifest.env.items
        required == {k \in EnvKeys : \E i \in 1..Len(items) : items[i] = <<k, "<required>">>}
        flag == "--env-var='"
        at == {j \in 1..(Len(notes) - Len(flag) + 1) :
                 SubSeq(notes, j, j + Len(flag) - 1) = flag}
        topic == IndexOf(notes, "--output-topic [TOPIC]")
    IN /\ \A k \in EnvKeys :
            CountOcc(notes, flag \o k \o "=[VALUE]'") = IF k \in required THEN 1 ELSE 0
       /\ Cardinality(at) = Cardinality(required)
       /\ topic # 0
       /\ \A j \in at : j > topic /\ SubSeq(notes, j - 7, j - 1) = " \\\n    "
       /\ manifest.env.kind = "absent" => at = {}

C7_Witness ==
  /\ pc = "rendered"
  /\ manifest.env.items = <<<<"A", "<required>">>, <<"B", "default">>>>
  /\ CountOcc(notes, "--env-var='A=[VALUE]'") = 1

\* C8: next_major(v) > v; next_minor(v) >= v with the same major;
\* next_patch(v) >= v with the same major and minor; each bump adds one to
\* its component and zeroes the lower ones; v itself is left as it was.
C8_Bumps ==
  /\ op = "major" => VersionLt(ver, bumped) /\ bumped = Version(ver.major + 1, 0, 0)
  /\ op = "minor" => /\ VersionLe(ver, bumped)
                     /\ bumped = Version(ver.major, ver.minor + 1, 0)
  /\ op = "patch" => /\ VersionLe(ver, bumped)
                     /\ bumped = Version(ver.major, ver.minor, ver.patch + 1)

C8_Witness == op = "minor" /\ ver.patch > 0 /\ bumped.patch = 0

\* C9: a well-formed string, with or without the leading "v", parses to its
\* three integer values and renders as the canonical v<major>.<minor>.<patch>
\* (zeros included); parsing the rendering gives the same version back.
C9_RoundTrip ==
  WellFormed(text) =>
    /\ parsed.err # "unset" => parsed = [err |-> "none", v |-> ValueOf(text)]
    /\ rendered # "" => rendered = Canonical(text)
    /\ reparsed.err # "unset" => reparsed = parsed /\ VersionStr(reparsed.v) = rendered

C9_Witness == text = "007.0.12" /\ rendered = "v7.0.12" /\ reparsed.err = "none"

\* C10: the version computed for the release is strictly greater than every
\* discovered version, so the tag handed to the release command is the tag
\* of no discovered version.
C10_FreshVersion ==
  /\ Len(steps) >= 3 => \A i \in 1..Len(versions) : VersionLt(versions[i], latest)
  /\ \A c \in 1..Len(calls) :
       calls[c].argv[1] = "gh" =>
         \A i \in 1..Len(versions) :
           calls[c].argv[4] # args.project \o "-" \o VersionStr(versions[i])

C10_Witness ==
  /\ pc = "done"
  /\ Len(versions) = 2
  /\ VersionLt(versions[1], versions[2])
  /\ args.version = "patch"

====
